---- MODULE Spec2Model ----
(***************************************************************************)
(* Model of the legacy-hierarchy CPU controller, src/cgroups/v1/cpu.rs:    *)
(* <Cpu as Controller>::apply creates the scope directory, applies the    *)
(* five optional CPU fields in order through the file primitive and then   *)
(* writes the pid to cgroup.procs.  Every filesystem call is one step.     *)
(***************************************************************************)
EXTENDS Integers, Sequences, FiniteSets

\* ------------------------------------------------------------------ bounds
\* Largest number of interface files that are missing or reject writes.
MaxFaults == 1
\* Number of successive apply calls against the same scope.
MaxCalls == 2

\* ------------------------------------------------------------ file names
CGROUP_CPU_SHARES == "cpu.shares"
CGROUP_CPU_QUOTA == "cpu.cfs_quota_us"
CGROUP_CPU_PERIOD == "cpu.cfs_period_us"
CGROUP_CPU_RT_RUNTIME == "cpu.rt_runtime_us"
CGROUP_CPU_RT_PERIOD == "cpu.rt_period_us"
\* Mutant: the pid goes to the tasks file of the legacy hierarchy.
MembershipIsTasks == "tasks"

CGROUP_PROCS == "cgroup.procs"

CpuFiles ==
  {CGROUP_CPU_SHARES, CGROUP_CPU_QUOTA, CGROUP_CPU_PERIOD,
   CGROUP_CPU_RT_RUNTIME, CGROUP_CPU_RT_PERIOD}

AllFiles == CpuFiles \cup {CGROUP_PROCS}

\* --------------------------------------------------------- Option<T>
None == << >>

Some(v) == <<v>>

Opt(S) == {None} \cup {Some(v) : v \in S}

\* ------------------------------------------------------ the LinuxCpu spec
Fields == {"shares", "period", "quota", "realtime_runtime", "realtime_period"}

\* Sample values of each field: u64 for shares and the periods, i64 (so also
\* negative) for quota and realtime runtime.
FieldVals ==
  [shares |-> {0, 2048},
   period |-> {0, 100000},
   quota |-> {-1, 0, 200000},
   realtime_runtime |-> {-1, 0, 950000},
   realtime_period |-> {0, 1000000}]

LinuxCpu ==
  [shares : Opt(FieldVals.shares),
   period : Opt(FieldVals.period),
   quota : Opt(FieldVals.quota),
   realtime_runtime : Opt(FieldVals.realtime_runtime),
   realtime_period : Opt(FieldVals.realtime_period)]

LinuxResources == [cpu : Opt(LinuxCpu)]

Pids == {1, 4321}

\* ------------------------------------------------------- decimal text
DigitChar(d) == <<"0", "1", "2", "3", "4", "5", "6", "7", "8", "9">>[d + 1]

RECURSIVE Digits(_)
Digits(n) ==
  IF n < 10 THEN <<DigitChar(n)>>
  ELSE Digits(n \div 10) \o <<DigitChar(n % 10)>>

\* value.to_string() of an integer
to_string(n) == IF n < 0 THEN <<"-">> \o Digits(-n) ELSE Digits(n)

\* ------------------------------------------------------- the filesystem
\* Text a file holds before apply touches it: an empty fixture or an old value.
PriorTexts == {<< >>, <<"7">>}

Absent == [exists |-> FALSE, content |-> << >>]

Present(text) == [exists |-> TRUE, content |-> text]

VARIABLES
  linux_resources,  \* the resource spec handed to apply
  pid,              \* the target process id
  env,              \* what the host allows: creating the scope, writing a file
  dirExists,        \* the scope directory cgroup_root exists
  files,            \* file name -> [exists, content] inside the scope
  pc,               \* position of the running call
  result,           \* "Running", "Ok" or "Err"
  errAt,            \* what the reported error names
  log,              \* write attempts of the running call, in order
  before,           \* files when the running call started
  calls             \* number of calls started

\* Several callers at once, each with its own scope path, on one filesystem.
VARIABLES
  world,            \* the filesystem: directories and files by path
  world0,           \* the filesystem before any caller started
  callers           \* caller -> its arguments, position, result and writes

cvars == <<world, world0, callers>>

vars ==
  <<linux_resources, pid, env, dirExists, files, pc, result, errAt, log,
    before, calls, world, world0, callers>>

\* The callers and the scope path each one is given; the paths do not overlap.
Callers == {"a", "b"}

Roots == {"scope_a", "scope_b", "scope_other"}

RootOf == [a |-> "scope_a", b |-> "scope_b"]

PidOf == [a |-> 1, b |-> 4321]

\* A file of the legacy hierarchy that apply has no business with.
CGROUP_TASKS == "tasks"

Names == AllFiles \cup {CGROUP_TASKS}

\* The filesystem and callers of a run that has a single caller.
NoWorld == << >>

NoCallers == << >>

NoError == "none"

ScopeDir == "cgroup_root"

\* The sets of at most n files.
RECURSIVE UpTo(_)
UpTo(n) ==
  IF n = 0 THEN {{}}
  ELSE UpTo(n - 1) \cup {S \cup {f} : S \in UpTo(n - 1), f \in AllFiles}

\* What the host may hold against the scope: at most MaxFaults files that
\* are all missing, or that all reject a write.
FaultPairs ==
  {<<S, {}>> : S \in UpTo(MaxFaults)} \cup {<<{}, D>> : D \in UpTo(MaxFaults)}

\* The scope as the host shows it before the first call.  An existing scope
\* holds its files with their prior text, some of them missing; a scope that
\* does not exist holds nothing, and the host decides whether it can be
\* created and whether creating it populates the interface files (cgroupfs
\* does, a plain directory does not).
InitialScopes ==
  {[dirExists |-> TRUE, creatable |-> TRUE, populate |-> FALSE,
    prior |-> t, faults |-> p] : t \in PriorTexts, p \in FaultPairs}
  \cup
  {[dirExists |-> FALSE, creatable |-> c, populate |-> FALSE,
    prior |-> << >>, faults |-> <<{}, {}>>] : c \in BOOLEAN}
  \cup
  {[dirExists |-> FALSE, creatable |-> TRUE, populate |-> TRUE,
    prior |-> t, faults |-> p] :
     t \in PriorTexts, p \in {q \in FaultPairs : q[1] = {}}}

Init ==
  /\ linux_resources \in LinuxResources
  /\ pid \in Pids
  /\ \E s \in InitialScopes :
       /\ dirExists = s.dirExists
       /\ env = [creatable |-> s.creatable, populate |-> s.populate,
                 denied |-> s.faults[2], prior |-> s.prior]
       /\ files = [f \in AllFiles |->
                     IF s.dirExists /\ f \notin s.faults[1]
                     THEN Present(s.prior) ELSE Absent]
  /\ pc = "create_dir"
  /\ result = "Running"
  /\ errAt = NoError
  /\ log = << >>
  /\ before = files
  /\ calls = 1
  /\ world = NoWorld
  /\ world0 = NoWorld
  /\ callers = NoCallers

\* ------------------------------------------------- the file primitive
\* common::write_cgroup_file(path, value): opens the existing file for
\* writing and writes value.to_string() as its whole content; a missing file
\* or a rejected write is an error that leaves the file as it was.
CanWrite(f) == dirExists /\ files[f].exists /\ f \notin env.denied

write_cgroup_file(f, value) ==
  IF CanWrite(f)
  THEN [ok |-> TRUE, files |-> [files EXCEPT ![f] = Present(to_string(value))]]
  ELSE [ok |-> FALSE, files |-> files]

Attempt(f, value, ok) == [file |-> f, text |-> to_string(value), ok |-> ok]

\* -------------------------------------------------------- Cpu::apply
\* Mutant: the quota and period file names exchanged.
FileOfSwapped(field) ==
  CASE field = "shares" -> CGROUP_CPU_SHARES
    [] field = "period" -> CGROUP_CPU_QUOTA
    [] field = "quota" -> CGROUP_CPU_PERIOD
    [] field = "realtime_runtime" -> CGROUP_CPU_RT_RUNTIME
    [] field = "realtime_period" -> CGROUP_CPU_RT_PERIOD

\* The interface file of each field.
FileOf(field) ==
  CASE field = "shares" -> CGROUP_CPU_SHARES
    [] field = "period" -> CGROUP_CPU_PERIOD
    [] field = "quota" -> CGROUP_CPU_QUOTA
    [] field = "realtime_runtime" -> CGROUP_CPU_RT_RUNTIME
    [] field = "realtime_period" -> CGROUP_CPU_RT_PERIOD

\* Mutant: the zero test dropped, only an absent field is skipped.
SkipAbsentOnly(v) == v = None

\* Mutant: a sign test in place of the zero test.
SkipNonPositive(v) == v = None \/ v[1] <= 0

\* `if let Some(v) = field { if v != 0 { write } }`: the field is skipped
\* when it is absent or zero.
Skip(v) == v = None \/ v[1] = 0

\* Mutant: the quota block placed before the period block.
SuccessorSwapped(field) ==
  CASE field = "shares" -> "quota"
    [] field = "quota" -> "period"
    [] field = "period" -> "realtime_runtime"
    [] field = "realtime_runtime" -> "realtime_period"
    [] field = "realtime_period" -> "procs"

\* The statement after a field's block; after the last one Cpu::apply returns
\* Ok(()) and the controller goes on to the membership file.
Successor(field) ==
  CASE field = "shares" -> "period"
    [] field = "period" -> "quota"
    [] field = "quota" -> "realtime_runtime"
    [] field = "realtime_runtime" -> "realtime_period"
    [] field = "realtime_period" -> "procs"

\* Mutant: a failed write is tried a second time before the error is returned.
ApplyFieldRetry(field) ==
  /\ pc = field
  /\ LET v == linux_resources.cpu[1][field]
         f == FileOf(field)
     IN IF Skip(v)
        THEN /\ pc' = Successor(field)
             /\ UNCHANGED <<files, result, errAt, log>>
        ELSE LET w == write_cgroup_file(f, v[1])
             IN /\ files' = w.files
                /\ IF w.ok
                   THEN /\ log' = Append(log, Attempt(f, v[1], TRUE))
                        /\ pc' = Successor(field)
                        /\ UNCHANGED <<result, errAt>>
                   ELSE /\ log' = log \o <<Attempt(f, v[1], FALSE),
                                            Attempt(f, v[1], FALSE)>>
                        /\ pc' = "done"
                        /\ result' = "Err"
                        /\ errAt' = f
  /\ UNCHANGED <<linux_resources, pid, env, dirExists, before, calls>>

\* Mutant: the error of a failed write is recorded but the call goes on.
ApplyFieldContinue(field) ==
  /\ pc = field
  /\ LET v == linux_resources.cpu[1][field]
         f == FileOf(field)
     IN IF Skip(v)
        THEN /\ pc' = Successor(field)
             /\ UNCHANGED <<files, result, errAt, log>>
        ELSE LET w == write_cgroup_file(f, v[1])
             IN /\ log' = Append(log, Attempt(f, v[1], w.ok))
                /\ files' = w.files
                /\ pc' = Successor(field)
                /\ result' = IF w.ok THEN result ELSE "Err"
                /\ errAt' = IF w.ok THEN errAt ELSE f
  /\ UNCHANGED <<linux_resources, pid, env, dirExists, before, calls>>

\* Mutant: a failed write restores the files to what they were at the start.
ApplyFieldRollback(field) ==
  /\ pc = field
  /\ LET v == linux_resources.cpu[1][field]
         f == FileOf(field)
     IN IF Skip(v)
        THEN /\ pc' = Successor(field)
             /\ UNCHANGED <<files, result, errAt, log>>
        ELSE LET w == write_cgroup_file(f, v[1])
             IN /\ log' = Append(log, Attempt(f, v[1], w.ok))
                /\ IF w.ok
                   THEN /\ files' = w.files
                        /\ pc' = Successor(field)
                        /\ UNCHANGED <<result, errAt>>
                   ELSE /\ files' = [g \in AllFiles |->
                                      IF before[g].exists THEN before[g]
                                      ELSE files[g]]
                        /\ pc' = "done"
                        /\ result' = "Err"
                        /\ errAt' = f
  /\ UNCHANGED <<linux_resources, pid, env, dirExists, before, calls>>

\* Mutant: a field whose file does not exist is passed over without error.
ApplyFieldSkipMissing(field) ==
  /\ pc = field
  /\ LET v == linux_resources.cpu[1][field]
         f == FileOf(field)
     IN IF Skip(v) \/ ~files[f].exists
        THEN /\ pc' = Successor(field)
             /\ UNCHANGED <<files, result, errAt, log>>
        ELSE LET w == write_cgroup_file(f, v[1])
             IN /\ log' = Append(log, Attempt(f, v[1], w.ok))
                /\ files' = w.files
                /\ IF w.ok
                   THEN /\ pc' = Successor(field)
                        /\ UNCHANGED <<result, errAt>>
                   ELSE /\ pc' = "done"
                        /\ result' = "Err"
                        /\ errAt' = f
  /\ UNCHANGED <<linux_resources, pid, env, dirExists, before, calls>>

\* One field block of Cpu::apply; `?` returns the first error to the caller.
ApplyField(field) ==
  /\ pc = field
  /\ LET v == linux_resources.cpu[1][field]
         f == FileOf(field)
     IN IF Skip(v)
        THEN /\ pc' = Successor(field)
             /\ UNCHANGED <<files, result, errAt, log>>
        ELSE LET w == write_cgroup_file(f, v[1])
             IN /\ log' = Append(log, Attempt(f, v[1], w.ok))
                /\ files' = w.files
                /\ IF w.ok
                   THEN /\ pc' = Successor(field)
                        /\ UNCHANGED <<result, errAt>>
                   ELSE /\ pc' = "done"
                        /\ result' = "Err"
                        /\ errAt' = f
  /\ UNCHANGED <<linux_resources, pid, env, dirExists, before, calls>>

ApplyShares == ApplyField("shares")

ApplyPeriod == ApplyField("period")

ApplyQuota == ApplyField("quota")

ApplyRtRuntime == ApplyField("realtime_runtime")

ApplyRtPeriod == ApplyField("realtime_period")

\* ------------------------------------------ <Cpu as Controller>::apply
\* Mutant: the call of Cpu::apply left out.
AfterCreateDirNoCpu == "procs"

\* Where the controller goes once the scope directory exists.
AfterCreateDir == IF linux_resources.cpu # None THEN "shares" ELSE "procs"

\* Mutant: a failed create_dir_all is tried again instead of returned.
CreateDirRetry ==
  /\ pc = "create_dir"
  /\ IF dirExists \/ env.creatable
     THEN /\ dirExists' = TRUE
          /\ files' = IF ~dirExists /\ env.populate
                      THEN [f \in AllFiles |-> Present(env.prior)]
                      ELSE files
          /\ pc' = AfterCreateDir
     ELSE /\ pc' = "create_dir"
          /\ UNCHANGED <<dirExists, files>>
  /\ UNCHANGED <<result, errAt>>
  /\ UNCHANGED <<linux_resources, pid, env, log, before, calls>>

\* Mutant: create_dir in place of create_dir_all, an error when the
\* directory is already there.
CreateDirExclusive ==
  /\ pc = "create_dir"
  /\ IF ~dirExists /\ env.creatable
     THEN /\ dirExists' = TRUE
          /\ files' = IF env.populate
                      THEN [f \in AllFiles |-> Present(env.prior)]
                      ELSE files
          /\ pc' = AfterCreateDir
          /\ UNCHANGED <<result, errAt>>
     ELSE /\ pc' = "done"
          /\ result' = "Err"
          /\ errAt' = ScopeDir
          /\ UNCHANGED <<dirExists, files>>
  /\ UNCHANGED <<linux_resources, pid, env, log, before, calls>>

\* Mutant: the result of create_dir_all dropped (no `?`).
CreateDirIgnoreError ==
  /\ pc = "create_dir"
  /\ dirExists' = (dirExists \/ env.creatable)
  /\ files' = IF ~dirExists /\ env.creatable /\ env.populate
              THEN [f \in AllFiles |-> Present(env.prior)]
              ELSE files
  /\ pc' = AfterCreateDir
  /\ UNCHANGED <<result, errAt>>
  /\ UNCHANGED <<linux_resources, pid, env, log, before, calls>>

\* fs::create_dir_all(cgroup_root)?
CreateDir ==
  /\ pc = "create_dir"
  /\ IF dirExists
     THEN /\ pc' = AfterCreateDir
          /\ UNCHANGED <<dirExists, files, result, errAt>>
     ELSE IF env.creatable
     THEN /\ dirExists' = TRUE
          /\ files' = IF env.populate
                      THEN [f \in AllFiles |-> Present(env.prior)]
                      ELSE files
          /\ pc' = AfterCreateDir
          /\ UNCHANGED <<result, errAt>>
     ELSE /\ pc' = "done"
          /\ result' = "Err"
          /\ errAt' = ScopeDir
          /\ UNCHANGED <<dirExists, files>>
  /\ UNCHANGED <<linux_resources, pid, env, log, before, calls>>

\* Mutant: the id of the calling process written in place of the target pid.
AttachPidSelf ==
  /\ pc = "procs"
  /\ LET w == write_cgroup_file(CGROUP_PROCS, 1)
     IN /\ log' = Append(log, Attempt(CGROUP_PROCS, 1, w.ok))
        /\ files' = w.files
        /\ pc' = "done"
        /\ result' = IF w.ok THEN "Ok" ELSE "Err"
        /\ errAt' = IF w.ok THEN errAt ELSE CGROUP_PROCS
  /\ UNCHANGED <<linux_resources, pid, env, dirExists, before, calls>>

\* Mutant: the pid is added after the text the membership file holds.
AttachPidAppend ==
  /\ pc = "procs"
  /\ LET ok == CanWrite(CGROUP_PROCS)
     IN /\ log' = Append(log, Attempt(CGROUP_PROCS, pid, ok))
        /\ files' = IF ok
                    THEN [files EXCEPT ![CGROUP_PROCS].content =
                                         @ \o to_string(pid)]
                    ELSE files
        /\ pc' = "done"
        /\ result' = IF ok THEN "Ok" ELSE "Err"
        /\ errAt' = IF ok THEN errAt ELSE CGROUP_PROCS
  /\ UNCHANGED <<linux_resources, pid, env, dirExists, before, calls>>

\* common::write_cgroup_file(cgroup_root.join(CGROUP_PROCS), pid)?; Ok(())
AttachPid ==
  /\ pc = "procs"
  /\ LET w == write_cgroup_file(CGROUP_PROCS, pid)
     IN /\ log' = Append(log, Attempt(CGROUP_PROCS, pid, w.ok))
        /\ files' = w.files
        /\ pc' = "done"
        /\ result' = IF w.ok THEN "Ok" ELSE "Err"
        /\ errAt' = IF w.ok THEN errAt ELSE CGROUP_PROCS
  /\ UNCHANGED <<linux_resources, pid, env, dirExists, before, calls>>

\* The caller applies the same spec to the same scope once more.
ApplyAgain ==
  /\ pc = "done"
  /\ calls < MaxCalls
  /\ calls' = calls + 1
  /\ pc' = "create_dir"
  /\ result' = "Running"
  /\ errAt' = NoError
  /\ log' = << >>
  /\ before' = files
  /\ UNCHANGED <<linux_resources, pid, env, dirExists, files>>

Next ==
  \/ CreateDir /\ UNCHANGED cvars
  \/ ApplyShares /\ UNCHANGED cvars
  \/ ApplyPeriod /\ UNCHANGED cvars
  \/ ApplyQuota /\ UNCHANGED cvars
  \/ ApplyRtRuntime /\ UNCHANGED cvars
  \/ ApplyRtPeriod /\ UNCHANGED cvars
  \/ AttachPid /\ UNCHANGED cvars
  \/ ApplyAgain /\ UNCHANGED cvars

Spec == Init /\ [][Next]_vars

\* One call run to its end.  The call is synchronous and has no suspension
\* point, so the thread that runs it keeps taking its steps.
CallStep ==
  \/ CreateDir /\ UNCHANGED cvars
  \/ ApplyShares /\ UNCHANGED cvars
  \/ ApplyPeriod /\ UNCHANGED cvars
  \/ ApplyQuota /\ UNCHANGED cvars
  \/ ApplyRtRuntime /\ UNCHANGED cvars
  \/ ApplyRtPeriod /\ UNCHANGED cvars
  \/ AttachPid /\ UNCHANGED cvars

\* Which steps a call takes and where it ends depends on the spec and on
\* what the host accepts, not on the pid or on the text the files hold, so
\* the runs checked for termination start with one pid and empty files.
LiveInit == Init /\ pid = PidOf.b /\ env.prior = << >>

LiveSpec == LiveInit /\ [][CallStep]_vars /\ WF_vars(CallStep)

\* ------------------------------------------- callers on their own scopes
\* The specs of the concurrent callers: the CPU group absent, or shares,
\* quota and realtime period each absent or set.
ConcSpecs ==
  {[cpu |-> None]} \cup
  {[cpu |-> Some(c)] : c \in
     [shares : Opt({2048}), period : {None}, quota : Opt({-1, 0}),
      realtime_runtime : {None}, realtime_period : Opt({1000000})]}

\* A scope before the calls: its directory exists, with its files holding a
\* prior text and the quota file possibly missing, or it does not exist and
\* the host lets it be created (empty) or not.
ConcScopes ==
  {[dir |-> "exists",
    fs |-> [n \in Names |-> IF n \in m THEN Absent ELSE Present(t)]] :
     t \in PriorTexts, m \in {{}, {CGROUP_CPU_QUOTA}}}
  \cup
  {[dir |-> d, fs |-> [n \in Names |-> Absent]] : d \in {"absent", "blocked"}}

\* Mutant: the file is addressed without the caller's scope path.
JoinIgnoreRoot(root, name) == <<"scope_a", name>>

\* root_path.join(name)
Join(root, name) == <<root, name>>

\* common::write_cgroup_file on the shared filesystem.
CanWriteAt(w, path) ==
  w.dirs[path[1]] = "exists" /\ w.fs[path[1]][path[2]].exists

WriteAt(w, path, value) ==
  IF CanWriteAt(w, path)
  THEN [ok |-> TRUE,
        world |-> [w EXCEPT !.fs[path[1]][path[2]] = Present(to_string(value))]]
  ELSE [ok |-> FALSE, world |-> w]

\* fs::create_dir_all(cgroup_root)? and the test for the CPU group.
CreateDirStep(cs, w) ==
  LET after == IF cs.spec.cpu # None THEN "shares" ELSE "procs"
  IN IF w.dirs[cs.root] = "exists"
     THEN [caller |-> [cs EXCEPT !.pc = after], world |-> w]
     ELSE IF w.dirs[cs.root] = "absent"
     THEN [caller |-> [cs EXCEPT !.pc = after],
           world |-> [w EXCEPT !.dirs[cs.root] = "exists"]]
     ELSE [caller |-> [cs EXCEPT !.pc = "done", !.result = "Err",
                                 !.errAt = <<cs.root>>],
           world |-> w]

\* Mutant: a file that already holds a value is left as it is.
FieldStepKeepExisting(cs, w) ==
  LET v == cs.spec.cpu[1][cs.pc]
      path == Join(cs.root, FileOf(cs.pc))
      r == WriteAt(w, path, v[1])
      held == CanWriteAt(w, path) /\ w.fs[path[1]][path[2]].content # << >>
  IN IF Skip(v) \/ held
     THEN [caller |-> [cs EXCEPT !.pc = Successor(cs.pc)], world |-> w]
     ELSE IF r.ok
     THEN [caller |-> [cs EXCEPT !.pc = Successor(cs.pc),
                                 !.log = Append(@, Attempt(path, v[1], TRUE))],
           world |-> r.world]
     ELSE [caller |-> [cs EXCEPT !.pc = "done", !.result = "Err",
                                 !.errAt = path,
                                 !.log = Append(@, Attempt(path, v[1], FALSE))],
           world |-> w]

\* The field block of Cpu::apply the caller stands at.
FieldStep(cs, w) ==
  LET v == cs.spec.cpu[1][cs.pc]
      path == Join(cs.root, FileOf(cs.pc))
      r == WriteAt(w, path, v[1])
  IN IF Skip(v)
     THEN [caller |-> [cs EXCEPT !.pc = Successor(cs.pc)], world |-> w]
     ELSE IF r.ok
     THEN [caller |-> [cs EXCEPT !.pc = Successor(cs.pc),
                                 !.log = Append(@, Attempt(path, v[1], TRUE))],
           world |-> r.world]
     ELSE [caller |-> [cs EXCEPT !.pc = "done", !.result = "Err",
                                 !.errAt = path,
                                 !.log = Append(@, Attempt(path, v[1], FALSE))],
           world |-> w]

\* common::write_cgroup_file(cgroup_root.join(CGROUP_PROCS), pid)?; Ok(())
AttachStep(cs, w) ==
  LET path == Join(cs.root, CGROUP_PROCS)
      r == WriteAt(w, path, cs.pid)
  IN [caller |-> [cs EXCEPT !.pc = "done",
                            !.result = IF r.ok THEN "Ok" ELSE "Err",
                            !.errAt = IF r.ok THEN @ ELSE path,
                            !.log = Append(@, Attempt(path, cs.pid, r.ok))],
      world |-> r.world]

\* The next step of a call, as a function of the caller and the filesystem.
StepOf(cs, w) ==
  CASE cs.pc = "create_dir" -> CreateDirStep(cs, w)
    [] cs.pc \in Fields -> FieldStep(cs, w)
    [] cs.pc = "procs" -> AttachStep(cs, w)
    [] OTHER -> [caller |-> cs, world |-> w]

\* The single-caller variables at rest while several callers run.
SingleIdle ==
  /\ linux_resources = [cpu |-> None]
  /\ pid \in {p \in Pids : \A q \in Pids : p <= q}
  /\ env = [creatable |-> FALSE, populate |-> FALSE, denied |-> {},
            prior |-> << >>]
  /\ dirExists = FALSE
  /\ files = [f \in AllFiles |-> Absent]
  /\ pc = "done"
  /\ result = "Err"
  /\ errAt = ScopeDir
  /\ log = << >>
  /\ before = files
  /\ calls = MaxCalls

ConcInit ==
  /\ SingleIdle
  /\ \E sa \in ConcScopes, sb \in ConcScopes :
       world =
         [dirs |-> [scope_a |-> sa.dir, scope_b |-> sb.dir,
                    scope_other |-> "exists"],
          fs |-> [scope_a |-> sa.fs, scope_b |-> sb.fs,
                  scope_other |-> [n \in Names |-> Present(<<"7">>)]]]
  /\ world0 = world
  /\ \E specs \in [Callers -> ConcSpecs] :
       callers =
         [c \in Callers |->
            [spec |-> specs[c], pid |-> PidOf[c], root |-> RootOf[c],
             pc |-> "create_dir", result |-> "Running", errAt |-> << >>,
             log |-> << >>]]

\* Caller c takes the step it stands at.
ConcStep(c, at) ==
  /\ callers[c].pc \in at
  /\ LET r == StepOf(callers[c], world)
     IN /\ callers' = [callers EXCEPT ![c] = r.caller]
        /\ world' = r.world
  /\ UNCHANGED <<world0, linux_resources, pid, env, dirExists, files, pc,
                 result, errAt, log, before, calls>>

ConcCreateDir == \E c \in Callers : ConcStep(c, {"create_dir"})

ConcApplyField == \E c \in Callers : ConcStep(c, Fields)

ConcAttachPid == \E c \in Callers : ConcStep(c, {"procs"})

ConcNext ==
  \/ ConcCreateDir
  \/ ConcApplyField
  \/ ConcAttachPid

SpecConc == ConcInit /\ [][ConcNext]_vars

\* A call run from its start to its end with no other caller.
RECURSIVE Run(_, _, _)
Run(cs, w, n) ==
  IF n = 0 \/ cs.pc = "done" THEN [caller |-> cs, world |-> w]
  ELSE LET r == StepOf(cs, w) IN Run(r.caller, r.world, n - 1)

Alone(c) ==
  Run([callers[c] EXCEPT !.pc = "create_dir", !.result = "Running",
                         !.errAt = << >>, !.log = << >>],
      world0, Cardinality(Fields) + Cardinality({"create_dir", "procs"}))

TypeOK ==
  /\ linux_resources \in LinuxResources
  /\ pid \in Pids
  /\ dirExists \in BOOLEAN
  /\ DOMAIN files = AllFiles
  /\ pc \in Fields \cup {"create_dir", "procs", "done"}
  /\ result \in {"Running", "Ok", "Err"}
  /\ calls \in 1..MaxCalls

\* ================================================================ claims
\* The interface file the specification names for each field.
ClaimedFile ==
  [shares |-> "cpu.shares",
   period |-> "cpu.cfs_period_us",
   quota |-> "cpu.cfs_quota_us",
   realtime_runtime |-> "cpu.rt_runtime_us",
   realtime_period |-> "cpu.rt_period_us"]

\* The order the specification gives the fields.
FieldOrder ==
  <<"shares", "period", "quota", "realtime_runtime", "realtime_period">>

IndexOf(field) == CHOOSE i \in 1..Len(FieldOrder) : FieldOrder[i] = field

FieldOfFile(f) == CHOOSE field \in Fields : ClaimedFile[field] = f

\* The value the spec gives a field, None when the CPU group is absent.
Value(field) ==
  IF linux_resources.cpu = None THEN None
  ELSE linux_resources.cpu[1][field]

\* The field is present and non-zero.
Wanted(field) == Value(field) # None /\ Value(field)[1] # 0

\* A write to the file would be accepted.
Writable(f) == dirExists /\ files[f].exists /\ f \notin env.denied

Done == pc = "done"

Attempted(f) == \E i \in 1..Len(log) : log[i].file = f

Written(f) == \E i \in 1..Len(log) : log[i].file = f /\ log[i].ok

\* C1: a field that is absent or zero never has its interface file written:
\* no write of the call targets the file, and a file that existed when the
\* call started holds what it held then.
C1_SkippedFieldUntouched ==
  \A field \in Fields :
    ~Wanted(field) =>
      /\ ~Attempted(ClaimedFile[field])
      /\ before[ClaimedFile[field]].exists =>
           files[ClaimedFile[field]] = before[ClaimedFile[field]]

\* C1 witness: a successful call whose shares are zero and whose quota is
\* absent has written the period and left the old text in the other two.
C1_Witness ==
  /\ Done /\ result = "Ok"
  /\ Value("shares") = Some(0)
  /\ linux_resources.cpu # None /\ Value("quota") = None
  /\ Written("cpu.cfs_period_us")
  /\ files["cpu.shares"].content = <<"7">>
  /\ files["cpu.cfs_quota_us"].content = <<"7">>

\* C2: after a successful apply the file of every present, non-zero field
\* holds exactly the decimal text of the field's value.
C2_WrittenTextIsDecimal ==
  (Done /\ result = "Ok") =>
    \A field \in Fields :
      Wanted(field) =>
        files[ClaimedFile[field]] = Present(to_string(Value(field)[1]))

\* C2 witness: shares 2048 and quota -1 read back as "2048" and "-1".
C2_Witness ==
  /\ Done /\ result = "Ok"
  /\ Value("shares") = Some(2048)
  /\ Value("quota") = Some(-1)
  /\ files["cpu.shares"].content = <<"2", "0", "4", "8">>
  /\ files["cpu.cfs_quota_us"].content = <<"-", "1">>
  /\ before["cpu.shares"].content = << >>

\* C3: whenever the call has attached the pid, every present, non-zero field
\* was written earlier in the call and its file holds the new value.
C3_AttachAfterLimits ==
  \A i \in 1..Len(log) :
    (log[i].file = "cgroup.procs" /\ log[i].ok) =>
      \A field \in Fields :
        Wanted(field) =>
          /\ \E j \in 1..(i - 1) :
               /\ log[j].file = ClaimedFile[field]
               /\ log[j].ok
               /\ log[j].text = to_string(Value(field)[1])
          /\ files[ClaimedFile[field]].content = to_string(Value(field)[1])

\* C3 witness: the pid is attached after the writes of three fields.
C3_Witness ==
  /\ Written("cgroup.procs")
  /\ Wanted("shares") /\ Wanted("quota") /\ Wanted("realtime_period")
  /\ Len(log) = 4

\* The first field in order that is to be written and whose write fails.
FirstFailing ==
  LET bad == {i \in 1..Len(FieldOrder) :
                Wanted(FieldOrder[i]) /\ ~Writable(ClaimedFile[FieldOrder[i]])}
  IN IF bad = {} THEN 0 ELSE CHOOSE i \in bad : \A j \in bad : i <= j

\* C4: a failed write ends the call: it is the last attempt of the call, the
\* call is over with an error that names the failed file, that file is the
\* one of the first failing field in order, and no file of a later field nor
\* the membership file has been attempted.
C4_FailFast ==
  /\ \A i \in 1..Len(log) :
       ~log[i].ok =>
         /\ i = Len(log)
         /\ Done /\ result = "Err" /\ errAt = log[i].file
  /\ (Done /\ result = "Err" /\ errAt \in CpuFiles) =>
       /\ FirstFailing # 0
       /\ errAt = ClaimedFile[FieldOrder[FirstFailing]]
       /\ ~Attempted("cgroup.procs")
       /\ \A k \in (FirstFailing + 1)..Len(FieldOrder) :
            ~Attempted(ClaimedFile[FieldOrder[k]])
  /\ (Done /\ dirExists /\ linux_resources.cpu # None /\ FirstFailing # 0) =>
       result = "Err" /\ errAt = ClaimedFile[FieldOrder[FirstFailing]]

\* C4 witness: the shares write failed while the quota, also to be written
\* and also bound to fail, and the membership file were never attempted.
C4_Witness ==
  /\ Done /\ result = "Err" /\ errAt = "cpu.shares"
  /\ Wanted("quota") /\ ~Writable("cpu.cfs_quota_us")
  /\ Wanted("realtime_period")
  /\ Len(log) = 1

\* C5: every file the call has written keeps the text the call wrote, also
\* once a later write has failed and the call has reported the failure.
C5_NoRollback ==
  \A i \in 1..Len(log) :
    log[i].ok => files[log[i].file] = Present(log[i].text)

\* C5 witness: the quota file is missing, the call failed on it, and the
\* shares and period files hold the values written before.
C5_Witness ==
  /\ Done /\ result = "Err" /\ errAt = "cpu.cfs_quota_us"
  /\ ~files["cpu.cfs_quota_us"].exists
  /\ files["cpu.shares"] = Present(<<"2", "0", "4", "8">>)
  /\ files["cpu.cfs_period_us"] = Present(<<"1", "0", "0", "0", "0", "0">>)
  /\ before["cpu.shares"].content = <<"7">>

\* C6: the writes of one call follow the order shares, period, quota,
\* realtime runtime, realtime period.
C6_FieldOrder ==
  \A i, j \in 1..Len(log) :
    (i < j /\ log[i].file \in CpuFiles /\ log[j].file \in CpuFiles) =>
      IndexOf(FieldOfFile(log[i].file)) < IndexOf(FieldOfFile(log[j].file))

\* C6 witness: a call that wrote all five fields and the pid.
C6_Witness ==
  /\ Done /\ result = "Ok" /\ Len(log) = 6
  /\ \A field \in Fields : Written(ClaimedFile[field])

\* C7: once a write to an interface file or to the membership file has been
\* attempted, the scope directory exists.
C7_DirBeforeWrites == (log # << >>) => dirExists

\* C7 witness: the scope did not exist, the call created it and then wrote.
C7_Witness ==
  /\ calls = 1
  /\ \A f \in AllFiles : ~before[f].exists
  /\ env.populate
  /\ Written("cpu.shares")

\* C8: every value written to a CPU interface file is the value the spec
\* gives, present and non-zero, for the field of that file.
C8_WrittenValuesWanted ==
  \A i \in 1..Len(log) :
    log[i].file \in CpuFiles =>
      /\ Wanted(FieldOfFile(log[i].file))
      /\ log[i].text = to_string(Value(FieldOfFile(log[i].file))[1])
      /\ log[i].text # <<"0">>

\* C8 witness: a call with zero and absent fields among written ones.
C8_Witness ==
  /\ Done /\ result = "Ok"
  /\ Value("period") = Some(0)
  /\ Value("realtime_runtime") = Some(-1)
  /\ linux_resources.cpu # None /\ Value("shares") = None
  /\ Len(log) = 2

\* C9: a second apply of the same spec to the same scope ends with the file
\* contents the first one ended with.
C9_Idempotent == (Done /\ calls >= 2) => files = before

\* C9 witness: the second of two successful calls that wrote two fields.
C9_Witness ==
  /\ Done /\ calls = 2 /\ result = "Ok"
  /\ Written("cpu.shares") /\ Written("cpu.rt_runtime_us")
  /\ files["cpu.shares"].content # env.prior

\* C10: a missing file fails the call when its field is to be written, and
\* only then: the call fails when the file of a present, non-zero field does
\* not exist; it succeeds when the scope exists and every file it has to
\* write accepts the write, whatever other files are missing; and no error
\* names the file of a skipped field.
C10_MissingFileHardError ==
  /\ Done =>
       \A field \in Fields :
         (Wanted(field) /\ ~files[ClaimedFile[field]].exists) =>
           result = "Err"
  /\ (/\ Done
      /\ dirExists
      /\ Writable("cgroup.procs")
      /\ \A field \in Fields : Wanted(field) => Writable(ClaimedFile[field]))
       => result = "Ok"
  /\ \A field \in Fields :
       ~Wanted(field) => errAt # ClaimedFile[field]

\* C10 witness: the call succeeded although the period file, whose field is
\* zero, is missing.
C10_Witness ==
  /\ Done /\ result = "Ok"
  /\ Value("period") = Some(0)
  /\ ~files["cpu.cfs_period_us"].exists
  /\ Written("cpu.shares")

\* Every file the call has to write accepts the write.
AllNeededWritable ==
  /\ Writable("cgroup.procs")
  /\ \A field \in Fields : Wanted(field) => Writable(ClaimedFile[field])

\* The scope did not exist when the first call started.
ScopeWasAbsent == calls = 1 /\ \A f \in AllFiles : ~before[f].exists

\* C11 as stated: a first call against a scope that does not exist, on a
\* host that lets it be created and rejects no value, creates the scope and
\* succeeds.
C11_Original ==
  (Done /\ ScopeWasAbsent /\ env.creatable /\ env.denied = {}) =>
    (dirExists /\ result = "Ok")

\* C11 amended: the directory step never fails when the scope exists or can
\* be created: it leaves the scope in existence and the call running without
\* error.  A first call against a scope that did not exist ends Ok when the
\* files it has to write are in the new directory and accept the writes, and
\* ends with the error of its first write when the directory was created
\* empty.
C11_CreatesScope ==
  /\ [][(pc = "create_dir" /\ (dirExists \/ env.creatable)) =>
          (dirExists' /\ pc' # "done" /\ result' = "Running"
             /\ errAt' = NoError)]_vars
  /\ []((Done /\ ScopeWasAbsent /\ env.creatable /\ AllNeededWritable) =>
          (dirExists /\ result = "Ok"))
  /\ []((Done /\ ScopeWasAbsent /\ env.creatable /\ ~env.populate) =>
          (/\ dirExists
           /\ result = "Err"
           /\ errAt \in AllFiles
           /\ Len(log) = 1 /\ ~log[1].ok))

\* C11 witness: the first call created the scope, wrote two fields and the
\* pid, and succeeded.
C11_Witness ==
  /\ calls = 1 /\ Done /\ result = "Ok"
  /\ env.populate /\ dirExists
  /\ \A f \in AllFiles : ~before[f].exists
  /\ Written("cpu.cfs_quota_us") /\ Written("cpu.rt_period_us")
  /\ files["cgroup.procs"].content = to_string(pid)

ProcsAttempts == {i \in 1..Len(log) : log[i].file = "cgroup.procs"}

\* C12: the membership file is the target of at most one write per call; a
\* successful call has written it exactly once, as its last write, with the
\* decimal text of the target pid, and when no CPU field is to be written
\* that is the only write of the call.
C12_OnePidPerCall ==
  /\ Cardinality(ProcsAttempts) <= 1
  /\ (Done /\ result = "Ok") =>
       /\ ProcsAttempts = {Len(log)}
       /\ log[Len(log)].ok
       /\ log[Len(log)].text = to_string(pid)
       /\ files["cgroup.procs"] = Present(to_string(pid))
       /\ (\A field \in Fields : ~Wanted(field)) =>
            (Len(log) = 1 /\
             \A f \in CpuFiles : before[f].exists => files[f] = before[f])

\* C12 witness: a successful call with pid 4321 whose CPU fields are all
\* skipped, two of them zero, attached the pid and wrote nothing else.
C12_Witness ==
  /\ Done /\ result = "Ok" /\ pid = 4321
  /\ Value("shares") = Some(0) /\ Value("quota") = Some(0)
  /\ \A field \in Fields : ~Wanted(field)
  /\ files["cgroup.procs"].content = <<"4", "3", "2", "1">>
  /\ before["cgroup.procs"].content = <<"7">>

\* C13: a scope that cannot be created ends the call at once with an error
\* naming the directory: no write has been attempted, no file has changed,
\* and the call never stands past the directory step without the directory.
C13_CreateDirFailure ==
  /\ (errAt = ScopeDir) =>
       (Done /\ result = "Err" /\ ~dirExists /\ log = << >> /\ files = before)
  /\ (~dirExists /\ pc # "create_dir") =>
       (Done /\ result = "Err" /\ errAt = ScopeDir /\ log = << >>)

\* C13 witness: a call with fields to write failed on the directory.
C13_Witness ==
  /\ Done /\ result = "Err" /\ errAt = ScopeDir
  /\ Wanted("shares") /\ Wanted("realtime_runtime")
  /\ ~env.creatable

\* C15: apply is not atomic across fields: for any two fields that are both
\* to be written, when the call stands at the block of the later one the
\* file of the earlier one holds its new value while the file of the later
\* one has not been written, and in a first call does not hold its value.
C15_PartialStateBetweenWrites ==
  \A i, j \in 1..Len(FieldOrder) :
    (/\ i < j
     /\ Wanted(FieldOrder[i]) /\ Wanted(FieldOrder[j])
     /\ pc = FieldOrder[j]) =>
      /\ result = "Running"
      /\ files[ClaimedFile[FieldOrder[i]]] =
           Present(to_string(Value(FieldOrder[i])[1]))
      /\ ~Attempted(ClaimedFile[FieldOrder[j]])
      /\ calls = 1 =>
           files[ClaimedFile[FieldOrder[j]]].content #
             to_string(Value(FieldOrder[j])[1])

\* C15 witness: the shares file holds 2048 while the call stands before the
\* quota write and the quota file still holds its old text.
C15_Witness ==
  /\ pc = "quota" /\ calls = 1
  /\ Value("shares") = Some(2048) /\ Value("quota") = Some(200000)
  /\ files["cpu.shares"].content = <<"2", "0", "4", "8">>
  /\ files["cpu.cfs_quota_us"] = Present(<<"7">>)

\* C17: within one call no file is the target of two write attempts, and a
\* failed attempt is the last attempt of the call.
C17_EachWriteOnce ==
  /\ \A i, j \in 1..Len(log) : log[i].file = log[j].file => i = j
  /\ \A i \in 1..Len(log) : ~log[i].ok => i = Len(log)
  /\ Len(log) <= Cardinality(AllFiles)

\* C17 witness: a call that wrote two files and failed on the third.
C17_Witness ==
  /\ Done /\ result = "Err"
  /\ Len(log) = 3
  /\ log[1].ok /\ log[2].ok /\ ~log[3].ok

\* The position of a step in the call.
Rank(p) ==
  CASE p = "create_dir" -> 0
    [] p = "shares" -> 1
    [] p = "period" -> 2
    [] p = "quota" -> 3
    [] p = "realtime_runtime" -> 4
    [] p = "realtime_period" -> 5
    [] p = "procs" -> 6
    [] p = "done" -> 7

\* C20: a present negative quota or realtime runtime is written like any
\* other non-zero value: once the call is past the field's block without
\* having failed before it, the file has been attempted with the decimal
\* text of the value, minus sign first, and after a successful call the file
\* holds that text.
C20_NegativeValuesWritten ==
  \A field \in {"quota", "realtime_runtime"} :
    (Value(field) # None /\ Value(field)[1] < 0) =>
      /\ (Rank(pc) > Rank(field) /\ result # "Err") =>
           \E i \in 1..Len(log) :
             /\ log[i].file = ClaimedFile[field]
             /\ log[i].ok
             /\ log[i].text = <<"-">> \o Digits(0 - Value(field)[1])
      /\ (Done /\ result = "Ok") =>
           files[ClaimedFile[field]] =
             Present(<<"-">> \o Digits(0 - Value(field)[1]))

\* C20 witness: quota -1 and realtime runtime -1 both read back as "-1".
C20_Witness ==
  /\ Done /\ result = "Ok"
  /\ Value("quota") = Some(-1) /\ Value("realtime_runtime") = Some(-1)
  /\ files["cpu.cfs_quota_us"] = Present(<<"-", "1">>)
  /\ files["cpu.rt_runtime_us"] = Present(<<"-", "1">>)
  /\ before["cpu.cfs_quota_us"] = Present(<<"7">>)

\* C16: every call terminates, and in one of two outcomes.  A call that is
\* not over is eventually over; it is over exactly when its result is Ok or
\* Err; Ok means the directory exists, every present non-zero field and the
\* pid have been written; Err names the directory or the file of the failed
\* write, which is the last write attempted; and every step moves the call
\* forward in its fixed sequence.
C16_Terminates ==
  /\ (pc # "done") ~> (pc = "done")
  /\ [](Done <=> result \in {"Ok", "Err"})
  /\ [](result \in {"Running", "Ok", "Err"})
  /\ []((Done /\ result = "Ok") =>
          (/\ dirExists
           /\ errAt = NoError
           /\ Written("cgroup.procs")
           /\ \A field \in Fields : Wanted(field) => Written(ClaimedFile[field])))
  /\ []((Done /\ result = "Err") =>
          \/ errAt = ScopeDir /\ log = << >>
          \/ (/\ log # << >>
              /\ ~log[Len(log)].ok
              /\ errAt = log[Len(log)].file))
  /\ [][Rank(pc') > Rank(pc)]_vars

\* C16 witness: a call that ended Ok after writing every field.
C16_Witness ==
  /\ Done /\ result = "Ok" /\ calls = 1
  /\ \A field \in Fields : Wanted(field)
  /\ Len(log) = 6 /\ errAt = NoError

\* ------------------------------------------------ claims on several callers
\* The files the specification lets apply change.
ClaimedNames ==
  {"cpu.shares", "cpu.cfs_period_us", "cpu.cfs_quota_us",
   "cpu.rt_runtime_us", "cpu.rt_period_us", "cgroup.procs"}

AllPaths == Roots \X Names

FileAt(w, path) == w.fs[path[1]][path[2]]

WantedBy(c, field) ==
  /\ callers[c].spec.cpu # None
  /\ callers[c].spec.cpu[1][field] # None
  /\ callers[c].spec.cpu[1][field][1] # 0

WrittenBy(c, path) ==
  \E i \in 1..Len(callers[c].log) :
    callers[c].log[i].file = path /\ callers[c].log[i].ok

\* C14: with every caller on its own scope path, a call that is over has the
\* result, the error and the list of writes it has when it runs alone, and
\* its scope holds the contents it holds after the call has run alone,
\* whatever the other callers have done in between.
C14_AsWhenAlone ==
  \A c \in Callers :
    callers[c].pc = "done" =>
      /\ callers[c] = Alone(c).caller
      /\ world.fs[RootOf[c]] = Alone(c).world.fs[RootOf[c]]
      /\ world.dirs[RootOf[c]] = Alone(c).world.dirs[RootOf[c]]

\* C14 witness: caller b has finished a successful call while caller a, with
\* another spec, stands between two of its writes, and a's scope holds a's
\* value and b's scope b's.
C14_Witness ==
  /\ callers["b"].pc = "done" /\ callers["b"].result = "Ok"
  /\ callers["a"].pc = "realtime_period"
  /\ WantedBy("a", "shares") /\ WantedBy("a", "realtime_period")
  /\ ~WantedBy("b", "shares") /\ WantedBy("b", "quota")
  /\ world.fs["scope_a"]["cpu.shares"] = Present(<<"2", "0", "4", "8">>)
  /\ world.fs["scope_b"]["cpu.shares"] = Present(<<"7">>)
  /\ world.fs["scope_b"]["cpu.cfs_quota_us"] = Present(<<"-", "1">>)
  /\ world.fs["scope_b"]["cgroup.procs"] = Present(<<"4", "3", "2", "1">>)

ChangedPaths == {p \in AllPaths : FileAt(world', p) # FileAt(world, p)}

\* C18: a step changes at most one file, which is the file of the last write
\* of the caller that took the step, lies in that caller's scope and is one
\* of the five CPU interface files or the membership file; so the tasks file
\* of each scope and every file of a scope without caller keep what they
\* held before the calls, on success and on failure.
C18_FrameOfApply ==
  /\ [][\A p \in ChangedPaths :
          /\ ChangedPaths = {p}
          /\ p[2] \in ClaimedNames
          /\ \E c \in Callers :
               /\ callers'[c] # callers[c]
               /\ p[1] = RootOf[c]
               /\ Len(callers'[c].log) = Len(callers[c].log) + 1
               /\ callers'[c].log[Len(callers'[c].log)].file = p
               /\ callers'[c].log[Len(callers'[c].log)].ok]_vars
  /\ [](\A p \in AllPaths :
          (p[2] \notin ClaimedNames \/ p[1] \notin {RootOf[c] : c \in Callers})
            => FileAt(world, p) = FileAt(world0, p))
  /\ [](\A r \in Roots :
          (r \notin {RootOf[c] : c \in Callers}) =>
            world.dirs[r] = world0.dirs[r])

\* C18 witness: one call succeeded and one failed on its missing quota file;
\* the tasks files and the third scope hold their old text.
C18_Witness ==
  /\ callers["a"].pc = "done" /\ callers["a"].result = "Ok"
  /\ callers["b"].pc = "done" /\ callers["b"].result = "Err"
  /\ callers["b"].errAt = <<"scope_b", "cpu.cfs_quota_us">>
  /\ Len(callers["a"].log) = 3 /\ Len(callers["b"].log) = 2
  /\ world.fs["scope_a"]["tasks"] = Present(<<"7">>)
  /\ world.fs["scope_b"]["tasks"] = Present(<<"7">>)
  /\ world.fs["scope_other"]["cgroup.procs"] = Present(<<"7">>)

\* Two scopes that differ at most in the text their files hold.
SameButContents(r1, r2) ==
  /\ world0.dirs[r1] = world0.dirs[r2]
  /\ \A n \in Names : world0.fs[r1][n].exists = world0.fs[r2][n].exists

\* C19: two calls with the same spec on scopes that differ only in the text
\* their files held end with the same result, and every CPU interface file
\* that one of them has written has been written by the other and holds the
\* same text in both scopes.
C19_IndependentOfPriorContent ==
  (/\ callers["a"].pc = "done" /\ callers["b"].pc = "done"
   /\ callers["a"].spec = callers["b"].spec
   /\ SameButContents("scope_a", "scope_b")) =>
    /\ callers["a"].result = callers["b"].result
    /\ \A field \in Fields :
         LET f == ClaimedFile[field]
         IN (WrittenBy("a", <<"scope_a", f>>) \/ WrittenBy("b", <<"scope_b", f>>))
              => /\ WrittenBy("a", <<"scope_a", f>>)
                 /\ WrittenBy("b", <<"scope_b", f>>)
                 /\ world.fs["scope_a"][f] = world.fs["scope_b"][f]
                 /\ WantedBy("a", field)
    /\ \A field \in Fields :
         (callers["a"].result = "Ok" /\ WantedBy("a", field)) =>
           world.fs["scope_a"][ClaimedFile[field]] =
             world.fs["scope_b"][ClaimedFile[field]]

\* C19 witness: the same spec applied to a scope of empty files and to a
\* scope of files holding "7" left the same text in the files it names.
C19_Witness ==
  /\ callers["a"].pc = "done" /\ callers["b"].pc = "done"
  /\ callers["a"].result = "Ok" /\ callers["b"].result = "Ok"
  /\ callers["a"].spec = callers["b"].spec
  /\ WantedBy("a", "shares") /\ WantedBy("a", "quota")
  /\ world0.fs["scope_a"]["cpu.shares"] = Present(<< >>)
  /\ world0.fs["scope_b"]["cpu.shares"] = Present(<<"7">>)
  /\ world.fs["scope_a"]["cpu.shares"] = world.fs["scope_b"]["cpu.shares"]
  /\ world.fs["scope_a"]["cpu.cfs_quota_us"] = Present(<<"-", "1">>)

====
